---- MODULE Spec2Model ----
(***************************************************************************)
(* Model of skills/skill-creator/scripts/validate-skill.py: the            *)
(* SkillValidator class and main().                                        *)
(*                                                                         *)
(* A skill directory is a record (does the path exist, the two candidate   *)
(* descriptor files, the references and scripts subdirectories).  A        *)
(* descriptor's text is a sequence of lines; a string value is a sequence  *)
(* of one-character strings.  The validator object is the record `self'    *)
(* of the three result lists and the optional frontmatter attribute; each  *)
(* check routine is an operator from (directory, self) to self, and one    *)
(* action per routine applies it to the variables.  An exception that      *)
(* leaves a routine is the field `raised'.                                 *)
(***************************************************************************)
EXTENDS Integers, Sequences, FiniteSets, TLC

VARIABLES
    skill_path,      \* the directory tree found at self.skill_path
    errors,          \* self.errors
    warnings,        \* self.warnings
    passed_checks,   \* self.passed_checks
    frontmatter,     \* self.frontmatter (set = hasattr(self, 'frontmatter'))
    pc,              \* position of the process inside main()/validate()
    verdict,         \* value returned by validate(): "none", "true", "false"
    printed,         \* what _print_results wrote: sections and summary line
    run,             \* number of the current invocation of main()
    prev             \* result lists of the previous invocation (history)

vars == <<skill_path, errors, warnings, passed_checks, frontmatter, pc,
          verdict, printed, run, prev>>

-----------------------------------------------------------------------------
(* Bounds of the model *)

MaxLinks == 2        \* references/ links in a descriptor body
MaxRuns == 2         \* invocations of main() on the same directory

(* Limits written in the source *)

NameMaxLen == 64
DescMaxLen == 1024
DescMinLen == 20
PreviewLen == 50

-----------------------------------------------------------------------------
(* Strings and parsed YAML values *)

Rep(c, n) == [i \in 1..n |-> c]

Min(a, b) == IF a < b THEN a ELSE b

Lower == {"a","b","c","d","e","f","g","h","i","j","k","l","m",
          "n","o","p","q","r","s","t","u","v","w","x","y","z"}
Digit == {"0","1","2","3","4","5","6","7","8","9"}

\* the character class [a-z0-9-]
NameClass == Lower \cup Digit \cup {"-"}

\* a value of the parsed mapping: a str, a list, or a scalar without len()
\* (int, null, bool); chars are the characters of a str, the items of a list
StrV(s) == [kind |-> "str", chars |-> s]
ListV(s) == [kind |-> "list", chars |-> s]
IntV(s) == [kind |-> "int", chars |-> s]
NoValue == [kind |-> "none", chars |-> <<>>]

\* len(v) raises TypeError unless v is sized
HasLen(v) == v.kind \in {"str", "list"}
\* v[:50] raises TypeError unless v is a sequence
Sliceable(v) == v.kind \in {"str", "list"}
\* re.match(pattern, v) raises TypeError unless v is a str
IsStr(v) == v.kind = "str"

AllIn(s, S) == \A i \in 1..Len(s) : s[i] \in S

\* re.match(r'^[a-z0-9-]+$', name): '$' matches at the end of the string and
\* also just before a newline that ends the string
MatchNameRe(s) ==
    \/ Len(s) >= 1 /\ AllIn(s, NameClass)
    \/ /\ Len(s) >= 2
       /\ s[Len(s)] = "\n"
       /\ AllIn(SubSeq(s, 1, Len(s) - 1), NameClass)

\* name.startswith('-') or name.endswith('-')
HyphenAtEdge(s) == Len(s) >= 1 /\ (s[1] = "-" \/ s[Len(s)] = "-")

\* '--' in name
DoubleHyphen(s) == \E i \in 1..(Len(s) - 1) : s[i] = "-" /\ s[i + 1] = "-"

\* an entry of a result list: the message, the text and the number it cites
Entry(msg, text, num) == [msg |-> msg, text |-> text, num |-> num]

-----------------------------------------------------------------------------
(* Descriptor text: a sequence of lines *)

Line(t, key, val, target) == [t |-> t, key |-> key, val |-> val, target |-> target]

Delim == Line("---", "", NoValue, "")            \* the line "---"
DelimX == Line("---x", "", NoValue, "")          \* "---" followed by more text
Blank == Line("blank", "", NoValue, "")          \* an empty line
Plain == Line("plain", "", NoValue, "")          \* a line of plain words
Item == Line("item", "", NoValue, "")            \* "- word"
Bad == Line("bad", "", NoValue, "")              \* "key: [" (malformed YAML)
KV(k, v) == Line("kv", k, v, "")                 \* "key: value"
Link(f) == Line("link", "", NoValue, f)          \* "[text](references/f)"
Win == Line("win", "", NoValue, "")              \* "dir\\sub"

\* mutant of StartsWithDelim: '---' in content
StartsWithDelim_Anywhere(content) ==
    \E i \in 1..Len(content) : content[i].t \in {"---", "---x"}

\* content.startswith('---')
StartsWithDelim(content) ==
    Len(content) >= 1 /\ content[1].t \in {"---", "---x"}

\* re.match(r'^---\n(.*?)\n---', content, re.DOTALL): the first line is
\* exactly "---" and a later line, not the second, starts with "---"; the
\* match is non-greedy, so the group ends before the first such line.
\* 0 when there is no match, else the index of the closing line.
FrontmatterEnd(content) ==
    IF /\ Len(content) >= 3
       /\ content[1].t = "---"
       /\ \E j \in 3..Len(content) : content[j].t \in {"---", "---x"}
    THEN CHOOSE j \in 3..Len(content) :
            /\ content[j].t \in {"---", "---x"}
            /\ \A k \in 3..(j - 1) : content[k].t \notin {"---", "---x"}
    ELSE 0

\* frontmatter_match.group(1)
FrontmatterText(content) == SubSeq(content, 2, FrontmatterEnd(content) - 1)

\* yaml.safe_load(frontmatter_text), for texts made of whole lines of one
\* kind (blank lines are skipped): "error" is a yaml.YAMLError, "none",
\* "scalar" and "list" are results that are not a dict
YamlKind(text) ==
    LET ts == {text[i].t : i \in 1..Len(text)} \ {"blank"}
    IN  IF ts = {} THEN "none"
        ELSE IF ts = {"kv"} THEN "dict"
        ELSE IF ts = {"item"} THEN "list"
        ELSE IF ts \subseteq {"plain", "win"} THEN "scalar"
        ELSE "error"

\* the dict built from the "key: value" lines; a repeated key keeps the
\* value of its last line
YamlKeys(text) == {text[i].key : i \in {j \in 1..Len(text) : text[j].t = "kv"}}

YamlGet(text, k) ==
    LET idx == {j \in 1..Len(text) : text[j].t = "kv" /\ text[j].key = k}
    IN  IF idx = {} THEN NoValue
        ELSE text[CHOOSE j \in idx : \A m \in idx : m <= j].val

YamlDict(text) ==
    [set |-> TRUE, keys |-> YamlKeys(text),
     name |-> YamlGet(text, "name"),
     description |-> YamlGet(text, "description")]

NoFrontmatter == [set |-> FALSE, keys |-> {}, name |-> NoValue, description |-> NoValue]

\* re.findall(r'\[([^\]]+)\]\(references/([^\)]+)\)', content): the captured
\* file paths, one per occurrence, in order of appearance
RECURSIVE FindRefLinks(_)
FindRefLinks(content) ==
    IF content = <<>> THEN <<>>
    ELSE IF Head(content).t = "link"
         THEN <<Head(content).target>> \o FindRefLinks(Tail(content))
         ELSE FindRefLinks(Tail(content))

\* re.findall(r'[\w-]+\\\\[\w-]+', content) is not empty
HasWindowsPath(content) == \E i \in 1..Len(content) : content[i].t = "win"

-----------------------------------------------------------------------------
(* The directory tree *)

NoFile == [present |-> FALSE, content |-> <<>>]
File(content) == [present |-> TRUE, content |-> content]

\* mutant of ChildExists: the child is looked up without its parent
ChildExists_WithoutParent(fs, present) == present

\* (self.skill_path / name).exists(): nothing exists below a missing path
ChildExists(fs, present) == fs.exists /\ present

\* mutant of DescriptorFile: no fallback to skill.md
DescriptorFile_UpperOnly(fs) ==
    IF ChildExists(fs, fs.upper.present) THEN fs.upper ELSE NoFile

\* the descriptor the content-reading checks open: SKILL.md, else skill.md
\* (lines 71-75, 162-166, 195-199)
DescriptorFile(fs) ==
    IF ChildExists(fs, fs.upper.present) THEN fs.upper
    ELSE IF ChildExists(fs, fs.lower.present) THEN fs.lower
    ELSE NoFile

-----------------------------------------------------------------------------
(* The validator object and its check routines *)

Err(self, e) == [self EXCEPT !.errors = Append(@, e)]
Warn(self, e) == [self EXCEPT !.warnings = Append(@, e)]
Pass(self, e) == [self EXCEPT !.passed_checks = Append(@, e)]
\* an exception that no handler of the routine catches
Raise(self) == [self EXCEPT !.raised = TRUE]

Msg(m) == Entry(m, <<>>, 0)

\* mutant of __init__: the lists are shared with the object before
__init___SharedLists(old) ==
    [errors |-> old.errors, warnings |-> old.warnings,
     passed_checks |-> old.passed_checks,
     frontmatter |-> NoFrontmatter, raised |-> FALSE]

\* SkillValidator.__init__: the object of an invocation starts with three
\* empty lists and without the frontmatter attribute (old is the object of
\* the invocation before, which the new process never sees)
__init__(old) ==
    [errors |-> <<>>, warnings |-> <<>>, passed_checks |-> <<>>,
     frontmatter |-> NoFrontmatter, raised |-> FALSE]

_check_directory_exists(fs, self) ==
    IF ~fs.exists
    THEN Err(self, Msg("directory does not exist"))
    ELSE Pass(self, Msg("directory exists"))

_check_skill_md_exists(fs, self) ==
    IF ~ChildExists(fs, fs.upper.present)
    THEN IF ~ChildExists(fs, fs.lower.present)
         THEN Err(self, Msg("SKILL.md does not exist"))
         ELSE Warn(self, Msg("file is named skill.md, SKILL.md is recommended"))
    ELSE Pass(self, Msg("SKILL.md exists"))

\* frontmatter['description'][:50]
Preview(v) == SubSeq(v.chars, 1, Min(PreviewLen, Len(v.chars)))

_check_yaml_frontmatter(fs, self) ==
    LET skill_md == DescriptorFile(fs)
        content == skill_md.content
    IN
    IF ~skill_md.present THEN self
    ELSE IF ~StartsWithDelim(content)
    THEN Err(self, Msg("missing YAML frontmatter"))
    ELSE IF FrontmatterEnd(content) = 0
    THEN Err(self, Msg("invalid YAML frontmatter format"))
    ELSE
    LET frontmatter_text == FrontmatterText(content)
        kind == YamlKind(frontmatter_text)
    IN
    IF kind = "error"
    THEN Err(self, Msg("YAML frontmatter parse failed"))
    ELSE IF kind # "dict"
    THEN Err(self, Msg("YAML frontmatter must be key-value pairs"))
    ELSE
    LET fm == YamlDict(frontmatter_text)
        s1 == Pass([self EXCEPT !.frontmatter = fm], Msg("YAML frontmatter valid"))
        s2 == IF "name" \notin fm.keys
              THEN Err(s1, Msg("frontmatter lacks name"))
              ELSE Pass(s1, Entry("name", fm.name.chars, 0))
    IN
    IF "description" \notin fm.keys
    THEN Err(s2, Msg("frontmatter lacks description"))
    ELSE IF Sliceable(fm.description)
    THEN Pass(s2, Entry("description", Preview(fm.description), 0))
    \* TypeError of the slice, caught by `except Exception'
    ELSE Err(s2, Msg("error while parsing frontmatter"))

_check_name_format(fs, self) ==
    IF ~self.frontmatter.set \/ "name" \notin self.frontmatter.keys THEN self
    ELSE
    LET name == self.frontmatter.name
        n == Len(name.chars)
        s1 == IF n > NameMaxLen
              THEN Err(self, Entry("name longer than 64", <<>>, n))
              ELSE Pass(self, Entry("name length ok", <<>>, n))
        s2 == IF ~MatchNameRe(name.chars)
              THEN Err(s1, Entry("name format invalid", name.chars, 0))
              ELSE Pass(s1, Msg("name format ok"))
        s3 == IF HyphenAtEdge(name.chars)
              THEN Warn(s2, Msg("name starts or ends with hyphen"))
              ELSE s2
    IN
    IF ~HasLen(name) THEN Raise(self)          \* TypeError of len(name)
    ELSE IF ~IsStr(name) THEN Raise(s1)        \* TypeError of re.match
    ELSE IF DoubleHyphen(name.chars)
    THEN Warn(s3, Msg("name has consecutive hyphens"))
    ELSE s3

\* mutant of _check_description_length: the limit compared with >=
_check_description_length_AtLimit(fs, self) ==
    IF ~self.frontmatter.set \/ "description" \notin self.frontmatter.keys THEN self
    ELSE
    LET description == self.frontmatter.description
        n == Len(description.chars)
        s1 == IF n >= DescMaxLen
              THEN Err(self, Entry("description longer than 1024", <<>>, n))
              ELSE Pass(self, Entry("description length ok", <<>>, n))
    IN
    IF ~HasLen(description) THEN Raise(self)
    ELSE IF n < DescMinLen
    THEN Warn(s1, Msg("description too short"))
    ELSE s1

_check_description_length(fs, self) ==
    IF ~self.frontmatter.set \/ "description" \notin self.frontmatter.keys THEN self
    ELSE
    LET description == self.frontmatter.description
        n == Len(description.chars)
        s1 == IF n > DescMaxLen
              THEN Err(self, Entry("description longer than 1024", <<>>, n))
              ELSE Pass(self, Entry("description length ok", <<>>, n))
    IN
    IF ~HasLen(description) THEN Raise(self)   \* TypeError of len(description)
    ELSE IF n < DescMinLen
    THEN Warn(s1, Msg("description too short"))
    ELSE s1

\* mutant of CheckRefFiles: the loop ends at the first missing file
RECURSIVE CheckRefFiles_Break(_, _, _)
CheckRefFiles_Break(fs, self, ref_links) ==
    IF ref_links = <<>> THEN self
    ELSE LET file_path == Head(ref_links)
         IN  IF ~ChildExists(fs, fs.refs_dir /\ file_path \in fs.ref_files)
             THEN Err(self, Entry("referenced file not found", <<file_path>>, 0))
             ELSE CheckRefFiles_Break(
                      fs, Pass(self, Entry("referenced file exists", <<file_path>>, 0)),
                      Tail(ref_links))

\* the loop of lines 178-183 over the captured links
RECURSIVE CheckRefFiles(_, _, _)
CheckRefFiles(fs, self, ref_links) ==
    IF ref_links = <<>> THEN self
    ELSE LET file_path == Head(ref_links)
             s1 == IF ~ChildExists(fs, fs.refs_dir /\ file_path \in fs.ref_files)
                   THEN Err(self, Entry("referenced file not found", <<file_path>>, 0))
                   ELSE Pass(self, Entry("referenced file exists", <<file_path>>, 0))
         IN  CheckRefFiles(fs, s1, Tail(ref_links))

_check_references(fs, self) ==
    LET skill_md == DescriptorFile(fs)
        ref_links == FindRefLinks(skill_md.content)
    IN
    IF ~skill_md.present THEN self
    ELSE IF ref_links = <<>> THEN self
    ELSE IF ~ChildExists(fs, fs.refs_dir)
    THEN Err(self, Msg("references/ is linked but the directory does not exist"))
    ELSE CheckRefFiles(fs, self, ref_links)

\* the loop of lines 190-191 over the directory listing, glob("*.py")
RECURSIVE ListScripts(_, _)
ListScripts(self, scripts) ==
    IF scripts = <<>> THEN self
    ELSE LET script == Head(scripts)
             s1 == IF script.py
                   THEN Pass(self, Entry("script file", <<script.name>>, 0))
                   ELSE self
         IN  ListScripts(s1, Tail(scripts))

_check_scripts(fs, self) ==
    IF ChildExists(fs, fs.scripts_dir)
    THEN ListScripts(self, fs.scripts)
    ELSE self

_check_path_formats(fs, self) ==
    LET skill_md == DescriptorFile(fs)
    IN
    IF ~skill_md.present THEN self
    ELSE IF HasWindowsPath(skill_md.content)
    THEN Warn(self, Msg("Windows style path found"))
    ELSE Pass(self, Msg("path format ok"))

\* _print_results: the sections written (a section only when its list is
\* not empty) and the summary line
_print_results(self) ==
    [passed |-> self.passed_checks,
     warnings |-> self.warnings,
     errors |-> self.errors,
     summary |-> IF Len(self.errors) = 0 THEN 0 ELSE 1,
     count |-> Len(self.errors)]

NotPrinted == [passed |-> <<>>, warnings |-> <<>>, errors |-> <<>>, summary |-> 0, count |-> 0]

\* mutant of Verdict: warnings count against success
Verdict_CountsWarnings(self) ==
    IF Len(self.errors) = 0 /\ Len(self.warnings) = 0 THEN "true" ELSE "false"

\* the value validate returns: len(self.errors) == 0
Verdict(self) == IF Len(self.errors) = 0 THEN "true" ELSE "false"

-----------------------------------------------------------------------------
(* The inputs: descriptor texts and directory trees *)

OkName == StrV(<<"m","y","-","s","k","i","l","l">>)
OkDescription == StrV(Rep("d", 60))

Names ==
    { OkName,
      StrV(Rep("a", NameMaxLen)),
      StrV(Rep("a", NameMaxLen + 1)),
      StrV(<<"M","y","_","S","k","i","l","l","!">>),
      StrV(Rep("A", NameMaxLen + 1)),
      StrV(<<"-","a","-","-","b">>),
      StrV(<<>>),
      StrV(<<"a","b","\n">>),
      IntV(<<"1","2","3">>),
      ListV(<<"a","b">>) }

Descriptions ==
    { OkDescription,
      StrV(Rep("d", 5)),
      StrV(Rep("d", DescMaxLen)),
      StrV(Rep("d", DescMaxLen + 1)),
      IntV(<<"7">>),
      ListV(<<"x","y">>) }

OkKeys == <<KV("name", OkName), KV("description", OkDescription)>>

\* the lines between the delimiters
FrontLines ==
    { <<KV("name", n), KV("description", d)>> : n \in Names, d \in Descriptions }
    \cup
    { <<KV("name", OkName)>>,
      <<KV("description", OkDescription)>>,
      <<KV("license", StrV(<<"m","i","t">>))>>,
      <<KV("name", StrV(<<"X">>)), KV("license", StrV(<<"m","i","t">>)),
        KV("description", OkDescription), KV("name", OkName)>>,
      <<Blank>>, <<Item>>, <<Plain>>, <<Bad>>,
      <<KV("name", OkName), Plain>> }

\* the text up to the body
Frames ==
    { <<Delim>> \o f \o <<Delim>> : f \in FrontLines }
    \cup
    { <<>>,
      <<Plain, Delim>> \o OkKeys \o <<Delim>>,
      <<DelimX>> \o OkKeys \o <<Delim>>,
      <<Delim>> \o OkKeys,
      <<Delim, Delim>>,
      <<Delim>> \o OkKeys \o <<DelimX>> }

RefNames == {"foo.md", "bar.md"}

LinkLines(targets) == [i \in 1..Len(targets) |-> Link(targets[i])]

Bodies ==
    { LinkLines(t) \o w :
        t \in UNION {[1..n -> RefNames] : n \in 0..MaxLinks},
        w \in {<<>>, <<Win>>} }

Contents == { f \o b : f \in Frames, b \in Bodies }

OkContent == <<Delim>> \o OkKeys \o <<Delim>>

Script(name, py) == [name |-> name, py |-> py]

Tree(exists, upper, lower, refs_dir, ref_files, scripts_dir, scripts) ==
    [exists |-> exists, upper |-> upper, lower |-> lower,
     refs_dir |-> refs_dir, ref_files |-> ref_files,
     scripts_dir |-> scripts_dir, scripts |-> scripts]

\* the descriptor files of a directory: none, SKILL.md, skill.md, or both
DescriptorPairs ==
    { <<NoFile, NoFile>> }
    \cup { <<File(c), NoFile>> : c \in Contents }
    \cup { <<NoFile, File(c)>> : c \in Contents }
    \cup { <<File(c), File(OkContent \o <<Win>>)>> :
             c \in { f \o <<Link("foo.md")>> : f \in {OkContent, <<Plain>>, <<Delim, Bad, Delim>>} } }

RefDirs == { <<FALSE, {}>>, <<TRUE, {}>>, <<TRUE, {"foo.md"}>>, <<TRUE, {"foo.md", "bar.md"}>> }

ScriptDirs == { <<FALSE, <<>> >>, <<TRUE, <<Script("b.txt", FALSE), Script("a.py", TRUE)>> >> }

\* exists is whether the path given on the command line resolves; when it
\* does not, the other fields describe a tree the path does not reach
Trees ==
    { Tree(TRUE, d[1], d[2], r[1], r[2], s[1], s[2]) :
        d \in DescriptorPairs, r \in RefDirs, s \in ScriptDirs }
    \cup
    { Tree(FALSE, NoFile, NoFile, FALSE, {}, FALSE, <<>>),
      Tree(FALSE, File(OkContent), NoFile, TRUE, {"foo.md"}, TRUE, <<Script("a.py", TRUE)>>),
      Tree(FALSE, NoFile, File(OkContent \o <<Link("foo.md")>>), FALSE, {}, FALSE, <<>>) }

-----------------------------------------------------------------------------
(* main() and validate() *)

Self ==
    [errors |-> errors, warnings |-> warnings, passed_checks |-> passed_checks,
     frontmatter |-> frontmatter, raised |-> FALSE]

NoLists == [errors |-> <<>>, warnings |-> <<>>, passed_checks |-> <<>>, done |-> FALSE]

Store(s) ==
    /\ errors' = s.errors
    /\ warnings' = s.warnings
    /\ passed_checks' = s.passed_checks
    /\ frontmatter' = s.frontmatter

\* one call of validate(): an exception leaves validate and main
Call(s, next) ==
    /\ Store(s)
    /\ pc' = IF s.raised THEN "raised" ELSE next
    /\ UNCHANGED <<skill_path, verdict, printed, run, prev>>

Init ==
    /\ skill_path \in Trees
    /\ LET s == __init__(NoLists) IN
         /\ errors = s.errors
         /\ warnings = s.warnings
         /\ passed_checks = s.passed_checks
         /\ frontmatter = s.frontmatter
    /\ pc = "check_directory_exists"
    /\ verdict = "none"
    /\ printed = NotPrinted
    /\ run = 1
    /\ prev = NoLists

check_directory_exists ==
    /\ pc = "check_directory_exists"
    /\ Call(_check_directory_exists(skill_path, Self), "check_skill_md_exists")

check_skill_md_exists ==
    /\ pc = "check_skill_md_exists"
    /\ Call(_check_skill_md_exists(skill_path, Self), "check_yaml_frontmatter")

check_yaml_frontmatter ==
    /\ pc = "check_yaml_frontmatter"
    /\ Call(_check_yaml_frontmatter(skill_path, Self), "check_name_format")

check_name_format ==
    /\ pc = "check_name_format"
    /\ Call(_check_name_format(skill_path, Self), "check_description_length")

check_description_length ==
    /\ pc = "check_description_length"
    /\ Call(_check_description_length(skill_path, Self), "check_references")

check_references ==
    /\ pc = "check_references"
    /\ Call(_check_references(skill_path, Self), "check_scripts")

check_scripts ==
    /\ pc = "check_scripts"
    /\ Call(_check_scripts(skill_path, Self), "check_path_formats")

check_path_formats ==
    /\ pc = "check_path_formats"
    /\ Call(_check_path_formats(skill_path, Self), "print_results")

print_results ==
    /\ pc = "print_results"
    /\ printed' = _print_results(Self)
    /\ pc' = "return"
    /\ UNCHANGED <<skill_path, errors, warnings, passed_checks, frontmatter,
                   verdict, run, prev>>

\* return len(self.errors) == 0
validate_return ==
    /\ pc = "return"
    /\ verdict' = Verdict(Self)
    /\ pc' = "done"
    /\ UNCHANGED <<skill_path, errors, warnings, passed_checks, frontmatter,
                   printed, run, prev>>

\* the tool is invoked again on the same directory: a new process, a new
\* SkillValidator
main ==
    /\ pc \in {"done", "raised"}
    /\ run < MaxRuns
    /\ prev' = [errors |-> errors, warnings |-> warnings,
                passed_checks |-> passed_checks, done |-> TRUE]
    /\ Store(__init__(Self))
    /\ pc' = "check_directory_exists"
    /\ verdict' = "none"
    /\ printed' = NotPrinted
    /\ run' = run + 1
    /\ UNCHANGED skill_path

Next ==
    \/ check_directory_exists
    \/ check_skill_md_exists
    \/ check_yaml_frontmatter
    \/ check_name_format
    \/ check_description_length
    \/ check_references
    \/ check_scripts
    \/ check_path_formats
    \/ print_results
    \/ validate_return
    \/ main

Spec == Init /\ [][Next]_vars

-----------------------------------------------------------------------------
(* validate() as one function of the directory: lines 37-44 in order, an   *)
(* exception ending the sequence                                           *)

Then(self, next) == IF self.raised THEN self ELSE next

RunChecks(fs) ==
    LET s1 == _check_directory_exists(fs, __init__(NoLists))
        s2 == Then(s1, _check_skill_md_exists(fs, s1))
        s3 == Then(s2, _check_yaml_frontmatter(fs, s2))
        s4 == Then(s3, _check_name_format(fs, s3))
        s5 == Then(s4, _check_description_length(fs, s4))
        s6 == Then(s5, _check_references(fs, s5))
        s7 == Then(s6, _check_scripts(fs, s6))
    IN  Then(s7, _check_path_formats(fs, s7))

-----------------------------------------------------------------------------
(* Vocabulary of the properties *)

Count(list, e) == Cardinality({i \in 1..Len(list) : list[i] = e})
CountMsg(list, m) == Cardinality({i \in 1..Len(list) : list[i].msg = m})

IsPrefix(a, b) == Len(a) <= Len(b) /\ SubSeq(b, 1, Len(a)) = a

\* the positions of validate() after the named check has returned
AfterYaml ==
    pc \in {"check_name_format", "check_description_length", "check_references",
            "check_scripts", "check_path_formats", "print_results", "return", "done"}
AfterName == AfterYaml /\ pc # "check_name_format"
AfterReferences ==
    pc \in {"check_scripts", "check_path_formats", "print_results", "return", "done"}

\* the descriptor the directory offers, read off the tree itself
TheDescriptor ==
    IF skill_path.upper.present THEN skill_path.upper ELSE skill_path.lower
HasDescriptor ==
    skill_path.exists /\ (skill_path.upper.present \/ skill_path.lower.present)

\* the lines of a text between an opening "---" line and the next line that
\* starts with "---"
Closing(content) ==
    {j \in 3..Len(content) : content[j].t \in {"---", "---x"}}
Between(content) ==
    SubSeq(content, 2, (CHOOSE j \in Closing(content) :
                            \A k \in Closing(content) : j <= k) - 1)
LastValue(lines, k) ==
    lines[CHOOSE j \in 1..Len(lines) :
            /\ lines[j].key = k
            /\ \A m \in (j + 1)..Len(lines) : lines[m].key # k].val

\* the premise of C2: delimiter at the start, a well-formed mapping with
\* name and description, a str name of [a-z0-9-]+ (as the pattern matches
\* it) of at most 64 characters, a str description of at most 1024
WellFormed(content) ==
    /\ Len(content) >= 3
    /\ content[1].t = "---"
    /\ Closing(content) # {}
    /\ LET lines == Between(content) IN
        /\ lines # <<>>
        /\ \A i \in 1..Len(lines) : lines[i].t = "kv"
        /\ \E i \in 1..Len(lines) : lines[i].key = "name"
        /\ \E i \in 1..Len(lines) : lines[i].key = "description"
        /\ LET name == LastValue(lines, "name")
               description == LastValue(lines, "description")
           IN  /\ name.kind = "str"
               /\ Len(name.chars) >= 1
               /\ Len(name.chars) <= NameMaxLen
               /\ \A i \in 1..Len(name.chars) :
                    \/ name.chars[i] \in NameClass
                    \/ i = Len(name.chars) /\ i > 1 /\ name.chars[i] = "\n"
               /\ description.kind = "str"
               /\ Len(description.chars) <= DescMaxLen

\* the links of a text and the links whose file is missing
LinkTargets(content) ==
    {content[i].target : i \in {j \in 1..Len(content) : content[j].t = "link"}}
Occurrences(content, f) ==
    Cardinality({i \in 1..Len(content) : content[i].t = "link" /\ content[i].target = f})
Missing(f) == ~skill_path.refs_dir \/ f \notin skill_path.ref_files
NoMissingLink == \A f \in LinkTargets(TheDescriptor.content) : ~Missing(f)

DirMissing == Msg("directory does not exist")
MdMissing == Msg("SKILL.md does not exist")
LowercaseWarning == Msg("file is named skill.md, SKILL.md is recommended")
NotFound(f) == Entry("referenced file not found", <<f>>, 0)

-----------------------------------------------------------------------------
(* C1 *)

\* C1: when validate returns, it returns true exactly when the error list is
\* empty; the warnings play no part, and the report was rendered from the
\* lists without changing them or the verdict.
Thm_C1_VerdictIffNoErrors ==
    /\ pc \in {"return", "done"} =>
          /\ printed.errors = errors
          /\ printed.warnings = warnings
          /\ printed.passed = passed_checks
          /\ printed.summary = (IF errors = <<>> THEN 0 ELSE 1)
    /\ pc = "done" => /\ verdict \in {"true", "false"}
                      /\ (verdict = "true") <=> (errors = <<>>)
    /\ pc # "done" => verdict = "none"

Wit_C1_SuccessWithWarnings ==
    pc = "done" /\ verdict = "true" /\ Len(warnings) >= 2 /\ errors = <<>>

-----------------------------------------------------------------------------
(* C2 *)

\* C2 as stated: a well-formed descriptor with a valid name and description
\* gives an empty error list and a success verdict, whatever the body and the
\* rest of the directory hold.
Orig_C2_ValidDescriptorSucceeds ==
    (HasDescriptor /\ WellFormed(TheDescriptor.content)) =>
        /\ pc # "raised"
        /\ errors = <<>>
        /\ pc = "done" => verdict = "true"

\* C2, amended: the same, provided every references/ link of the descriptor
\* names a file that exists in an existing references directory.
Thm_C2_ValidDescriptorSucceeds ==
    (HasDescriptor /\ WellFormed(TheDescriptor.content) /\ NoMissingLink) =>
        /\ pc # "raised"
        /\ errors = <<>>
        /\ pc = "done" => verdict = "true"

Wit_C2_ValidWithLinks ==
    /\ pc = "done" /\ verdict = "true"
    /\ HasDescriptor /\ WellFormed(TheDescriptor.content)
    /\ Cardinality(LinkTargets(TheDescriptor.content)) = 2
    /\ Len(skill_path.upper.content) > 0
    /\ Len(frontmatter.description.chars) = DescMaxLen

-----------------------------------------------------------------------------
(* C3 *)

\* C3 as stated: a missing target directory gives failure and exactly one
\* error, the one about the directory.
Orig_C3_MissingDirectoryOneError ==
    (pc = "done" /\ ~skill_path.exists) =>
        verdict = "false" /\ errors = <<DirMissing>>

\* C3, amended: a missing target directory gives failure and exactly two
\* errors, the one about the directory followed by the one about the missing
\* descriptor file, whatever the rest of the input; validate always returns.
Thm_C3_MissingDirectoryTwoErrors ==
    ~skill_path.exists =>
        /\ pc # "raised"
        /\ pc \in {"check_skill_md_exists"} => errors = <<DirMissing>>
        /\ AfterYaml \/ pc = "check_yaml_frontmatter" =>
              errors = <<DirMissing, MdMissing>>
        /\ warnings = <<>> /\ passed_checks = <<>> /\ ~frontmatter.set
        /\ pc = "done" => verdict = "false"

Wit_C3_MissingDirectory ==
    /\ pc = "done" /\ ~skill_path.exists /\ verdict = "false"
    /\ skill_path.upper.present /\ skill_path.refs_dir
    /\ Len(errors) = 2

-----------------------------------------------------------------------------
(* C4 *)

\* C4: no check routine lets an exception escape; validate always reaches the
\* report and returns a verdict.
Orig_C4_NoCheckRaises == pc # "raised"

-----------------------------------------------------------------------------
(* C5 *)

\* C5: when the descriptor does not start with "---", the metadata parse
\* records the missing-frontmatter error once and stores no mapping, the
\* name and description checks append nothing, and validate returns failure.
Thm_C5_NoDelimiterNoMetadataChecks ==
    (HasDescriptor /\ (TheDescriptor.content = <<>>
                        \/ TheDescriptor.content[1].t \notin {"---", "---x"})) =>
        /\ pc # "raised"
        /\ ~frontmatter.set
        /\ AfterYaml => Count(errors, Msg("missing YAML frontmatter")) = 1
        /\ pc = "check_name_format" =>
              _check_name_format(skill_path, Self) = Self
        /\ pc = "check_description_length" =>
              _check_description_length(skill_path, Self) = Self
        /\ pc = "check_references" =>
              /\ errors = <<Msg("missing YAML frontmatter")>>
              /\ Len(passed_checks) + Len(warnings) = 2
        /\ pc = "done" => verdict = "false"

Wit_C5_NoDelimiter ==
    /\ pc = "done" /\ verdict = "false"
    /\ HasDescriptor /\ Len(TheDescriptor.content) > 3
    /\ TheDescriptor.content[1].t = "plain"
    /\ TheDescriptor.content[2].t = "---"
    /\ errors = <<Msg("missing YAML frontmatter")>>

-----------------------------------------------------------------------------
(* C6 *)

\* C6 as stated: for every link to a references/ file that does not exist,
\* whether or not the references directory exists, the reference check
\* records one not-found error naming the file per occurrence of the link.
Orig_C6_OneNotFoundPerLink ==
    (HasDescriptor /\ AfterReferences) =>
        \A f \in LinkTargets(TheDescriptor.content) :
            Missing(f) =>
                Count(errors, NotFound(f)) = Occurrences(TheDescriptor.content, f)

\* C6, amended: when the references directory exists, every link to a file
\* missing from it gets one not-found error naming the file per occurrence
\* (and a link to an existing file gets none); when the directory does not
\* exist and the descriptor has links, the check records the single
\* directory error and no not-found error.
Thm_C6_OneNotFoundPerLink ==
    (HasDescriptor /\ AfterReferences) =>
        LET content == TheDescriptor.content IN
        /\ skill_path.refs_dir =>
              /\ \A f \in LinkTargets(content) :
                    Count(errors, NotFound(f)) =
                        (IF Missing(f) THEN Occurrences(content, f) ELSE 0)
              /\ CountMsg(errors, "referenced file not found") +
                 CountMsg(passed_checks, "referenced file exists") =
                    Len(FindRefLinks(content))
              /\ CountMsg(errors, "references/ is linked but the directory does not exist") = 0
        /\ ~skill_path.refs_dir =>
              /\ CountMsg(errors, "referenced file not found") = 0
              /\ CountMsg(errors, "references/ is linked but the directory does not exist") =
                    (IF LinkTargets(content) = {} THEN 0 ELSE 1)

Wit_C6_TwoOccurrencesMissing ==
    /\ pc = "done" /\ HasDescriptor /\ skill_path.refs_dir
    /\ Occurrences(TheDescriptor.content, "bar.md") = 2
    /\ "bar.md" \notin skill_path.ref_files
    /\ Count(errors, NotFound("bar.md")) = 2

-----------------------------------------------------------------------------
(* C7 *)

LowerOnly ==
    skill_path.exists /\ ~skill_path.upper.present /\ skill_path.lower.present

\* the same directory with the descriptor under the name SKILL.md
AsUpper(fs) == [fs EXCEPT !.upper = fs.lower, !.lower = NoFile]

\* a list without the entries equal to e
RECURSIVE Without(_, _)
Without(list, e) ==
    IF list = <<>> THEN <<>>
    ELSE IF Head(list) = e THEN Without(Tail(list), e)
    ELSE <<Head(list)>> \o Without(Tail(list), e)

\* C7 as stated: with only skill.md present and valid frontmatter, validate
\* returns success and the warning list is exactly the filename
\* recommendation.
Orig_C7_LowercaseOneWarning ==
    (pc = "done" /\ LowerOnly /\ WellFormed(skill_path.lower.content)) =>
        /\ verdict = "true"
        /\ warnings = <<LowercaseWarning>>

\* C7, amended: with only skill.md present and valid frontmatter, validate
\* returns, the warning list is the filename recommendation followed by the
\* warnings the same content gives as SKILL.md, the error list is the one the
\* same content gives as SKILL.md (so the verdict is the same, and is success
\* when no linked references/ file is missing), and the passed list is that
\* of SKILL.md without its "SKILL.md exists" entry.
Thm_C7_LowercaseTreatedAsPresent ==
    (LowerOnly /\ WellFormed(skill_path.lower.content)) =>
        /\ pc # "raised"
        /\ pc = "done" =>
              LET u == RunChecks(AsUpper(skill_path)) IN
              /\ ~u.raised
              /\ errors = u.errors
              /\ warnings = <<LowercaseWarning>> \o u.warnings
              /\ Count(u.warnings, LowercaseWarning) = 0
              /\ passed_checks = Without(u.passed_checks, Msg("SKILL.md exists"))
              /\ Len(u.passed_checks) = Len(passed_checks) + 1
              /\ frontmatter = u.frontmatter
              /\ verdict = Verdict(u)
              /\ NoMissingLink => verdict = "true"

Wit_C7_LowercaseWithMoreWarnings ==
    /\ pc = "done" /\ LowerOnly /\ WellFormed(skill_path.lower.content)
    /\ verdict = "true"
    /\ Len(warnings) = 3
    /\ warnings[1] = LowercaseWarning
    /\ Len(FindRefLinks(skill_path.lower.content)) = 2

-----------------------------------------------------------------------------
(* C8 *)

\* C8: for a parsed str name the name check records one length result (an
\* error exactly when the length is 65 or more) and one format result (an
\* error exactly when the name is empty or has a character outside
\* [a-z0-9-]), independently of each other, and the two hyphen warnings are
\* given exactly when they apply.
Orig_C8_NameLengthAndFormat ==
    (AfterName /\ frontmatter.set /\ "name" \in frontmatter.keys
               /\ frontmatter.name.kind = "str") =>
        LET name == frontmatter.name.chars
            n == Len(name)
            badformat == n = 0 \/ \E i \in 1..n : name[i] \notin NameClass
        IN
        /\ CountMsg(errors, "name longer than 64") = (IF n >= 65 THEN 1 ELSE 0)
        /\ CountMsg(passed_checks, "name length ok") = (IF n >= 65 THEN 0 ELSE 1)
        /\ CountMsg(errors, "name format invalid") = (IF badformat THEN 1 ELSE 0)
        /\ CountMsg(passed_checks, "name format ok") = (IF badformat THEN 0 ELSE 1)
        /\ CountMsg(warnings, "name starts or ends with hyphen") =
              (IF n >= 1 /\ (name[1] = "-" \/ name[n] = "-") THEN 1 ELSE 0)
        /\ CountMsg(warnings, "name has consecutive hyphens") =
              (IF \E i \in 1..(n - 1) : name[i] = "-" /\ name[i + 1] = "-" THEN 1 ELSE 0)

\* what holds of the code: the same, except that a name made of characters
\* of the class followed by one final newline gets the format result of the
\* name without the newline
Lemma_NameResultsUpToFinalNewline ==
    (AfterName /\ frontmatter.set /\ "name" \in frontmatter.keys
               /\ frontmatter.name.kind = "str") =>
        LET name == frontmatter.name.chars
            n == Len(name)
            body == IF n >= 2 /\ name[n] = "\n" THEN SubSeq(name, 1, n - 1) ELSE name
            badformat == n = 0 \/ \E i \in 1..Len(body) : body[i] \notin NameClass
        IN
        /\ CountMsg(errors, "name longer than 64") = (IF n >= 65 THEN 1 ELSE 0)
        /\ CountMsg(passed_checks, "name length ok") = (IF n >= 65 THEN 0 ELSE 1)
        /\ CountMsg(errors, "name format invalid") = (IF badformat THEN 1 ELSE 0)
        /\ CountMsg(passed_checks, "name format ok") = (IF badformat THEN 0 ELSE 1)
        /\ CountMsg(warnings, "name starts or ends with hyphen") =
              (IF n >= 1 /\ (name[1] = "-" \/ name[n] = "-") THEN 1 ELSE 0)
        /\ CountMsg(warnings, "name has consecutive hyphens") =
              (IF \E i \in 1..(n - 1) : name[i] = "-" /\ name[i + 1] = "-" THEN 1 ELSE 0)

-----------------------------------------------------------------------------
(* C9 *)

-----------------------------------------------------------------------------
(* C10 *)

Successor(p) ==
    CASE p = "check_directory_exists" -> "check_skill_md_exists"
      [] p = "check_skill_md_exists" -> "check_yaml_frontmatter"
      [] p = "check_yaml_frontmatter" -> "check_name_format"
      [] p = "check_name_format" -> "check_description_length"
      [] p = "check_description_length" -> "check_references"
      [] p = "check_references" -> "check_scripts"
      [] p = "check_scripts" -> "check_path_formats"
      [] p = "check_path_formats" -> "print_results"
      [] p = "print_results" -> "return"
      [] p = "return" -> "done"
      [] OTHER -> "check_directory_exists"

\* C10: within an invocation every step goes from one check to the next in
\* the fixed order, whatever the check recorded, and each of the three lists
\* after the step extends the list before it.
Orig_C10_FixedOrderAppendOnly ==
    [][run' = run =>
          /\ pc' = Successor(pc)
          /\ IsPrefix(errors, errors')
          /\ IsPrefix(warnings, warnings')
          /\ IsPrefix(passed_checks, passed_checks')]_vars

\* what holds of the code: the order is kept until a check raises, and the
\* lists only grow
Lemma_OrderUntilRaise ==
    [][run' = run =>
          /\ pc' \in {Successor(pc), "raised"}
          /\ pc' = "raised" => pc \in {"check_name_format", "check_description_length"}
          /\ IsPrefix(errors, errors')
          /\ IsPrefix(warnings, warnings')
          /\ IsPrefix(passed_checks, passed_checks')]_vars

====
